---- MODULE Spec2Model ----
(***************************************************************************)
(* A model of prusa_link_rs: the PrinterBuilder, the Printer client with   *)
(* its staleness-gated refresh cache (src/src/lib.rs) and the serde        *)
(* decoding of the /api/printer payload into RawPrinter                    *)
(* (src/src/raw_printer.rs).                                               *)
(*                                                                         *)
(* Time is counted in whole seconds: an Instant is a natural number and a  *)
(* Duration is a number of seconds.  A call is instantaneous on this       *)
(* clock; time passes between calls.  Every method of Printer takes        *)
(* `&mut self` or `&self` on a value that is not shared, so calls on one   *)
(* client never overlap and each call is one action.                       *)
(***************************************************************************)
EXTENDS Integers, Sequences, FiniteSets, TLC

VARIABLES
    stage,          \* which struct exists: "PrinterBuilder" or "Printer"
    address,        \* PrinterBuilder.address / Printer.address
    api_key,        \* PrinterBuilder.api_key / Printer.api_key
    port,           \* PrinterBuilder.port / Printer.port
    auto_refresh,   \* PrinterBuilder.auto_refresh / Printer.auto_refresh
    printer,        \* Printer.printer : Option<RawPrinter>
    last_refresh,   \* Printer.last_refresh : Option<Instant>
    now,            \* the monotonic clock read by Instant::now()
    last            \* the most recent call: its inputs and what it returned

vars == <<stage, address, api_key, port, auto_refresh, printer, last_refresh,
          now, last>>

----------------------------------------------------------------------------
(* Bounds of the model *)

MaxTime == 3
MaxDuration == 2
MaxCalls == 3

(* Program constants *)

DefaultPort == 80
DefaultAutoRefresh == 2

(* Inputs *)

Addresses == {"10.0.0.2", "prusa.local"}
ApiKeys == {"key-a", "key-b"}
Ports == {DefaultPort, 8080}
Durations == 0..MaxDuration

----------------------------------------------------------------------------
(* Option<T> and Result<T, E> *)

None == [some |-> FALSE]
Some(v) == [some |-> TRUE, v |-> v]

Ok(v) == [ok |-> TRUE, v |-> v]
Fail == [ok |-> FALSE]

----------------------------------------------------------------------------
(* JSON documents.  A number carries its value and whether its literal is  *)
(* an integer that fits 64 bits (serde_json reads any other literal as a   *)
(* float).  An object is a function from its keys to its members.          *)

JNull == [t |-> "null"]
JBool(b) == [t |-> "bool", b |-> b]
JNum(n) == [t |-> "num", n |-> n, int |-> TRUE]
JFloat(n) == [t |-> "num", n |-> n, int |-> FALSE]
JStr(s) == [t |-> "str", s |-> s]
JObj(o) == [t |-> "obj", o |-> o]
Missing == [t |-> "missing"]

EmptyObj == JObj([k \in {} |-> JNull])

(* The member of object o under key k, or Missing. *)
field(o, k) == IF k \in DOMAIN o THEN o[k] ELSE Missing

(* A response body is a sequence of tokens: a whitespace character that    *)
(* JSON knows (space, tab, line feed, carriage return), a whitespace       *)
(* character that only Unicode knows (form feed, no-break space), a run    *)
(* of characters that is not JSON, or a whole JSON value.                  *)

WS == [t |-> "ws"]
FF == [t |-> "uws"]
JUNK == [t |-> "junk"]

IsJson(tok) == tok.t \in {"null", "bool", "num", "str", "obj"}

(* char::is_whitespace *)
is_whitespace(tok) == tok.t \in {"ws", "uws"}

RECURSIVE trim_start(_)
trim_start(s) ==
    IF s # <<>> /\ is_whitespace(Head(s)) THEN trim_start(Tail(s)) ELSE s

RECURSIVE trim_end(_)
trim_end(s) ==
    IF s # <<>> /\ is_whitespace(s[Len(s)])
    THEN trim_end(SubSeq(s, 1, Len(s) - 1))
    ELSE s

(* Seeded fault: the text is tested for emptiness without being trimmed. *)
trim_nothing(s) == s

(* str::trim *)
trim(s) == trim_end(trim_start(s))

is_empty(s) == Len(s) = 0

----------------------------------------------------------------------------
(* serde Deserialize for the types of raw_printer.rs *)

de_f32(j) == IF j.t = "num" THEN Ok(j.n) ELSE Fail

de_bool(j) == IF j.t = "bool" THEN Ok(j.b) ELSE Fail

de_String(j) == IF j.t = "str" THEN Ok(j.s) ELSE Fail

de_u64(j) == IF j.t = "num" /\ j.int /\ j.n >= 0 THEN Ok(j.n) ELSE Fail

(* Seeded fault: an Option field has no default when its key is missing. *)
de_Option_f32_no_default(j) ==
    IF j.t = "null" THEN Ok(None)
    ELSE IF j.t = "missing" THEN Fail
    ELSE LET r == de_f32(j) IN IF r.ok THEN Ok(Some(r.v)) ELSE Fail

de_Option_f32(j) ==
    IF j.t \in {"missing", "null"} THEN Ok(None)
    ELSE LET r == de_f32(j) IN IF r.ok THEN Ok(Some(r.v)) ELSE Fail

de_Temp(j) ==
    IF j.t # "obj" THEN Fail
    ELSE LET actual == de_f32(field(j.o, "actual"))
             target == de_f32(field(j.o, "target"))
         IN  IF actual.ok /\ target.ok
             THEN Ok([actual |-> actual.v, target |-> target.v])
             ELSE Fail

de_PrinterTemperature(j) ==
    IF j.t # "obj" THEN Fail
    ELSE LET nozzle == de_Temp(field(j.o, "tool0"))
             bed == de_Temp(field(j.o, "bed"))
         IN  IF nozzle.ok /\ bed.ok
             THEN Ok([nozzle |-> nozzle.v, bed |-> bed.v])
             ELSE Fail

de_PrinterSd(j) ==
    IF j.t # "obj" THEN Fail
    ELSE LET ready == de_bool(field(j.o, "ready"))
         IN  IF ready.ok THEN Ok([ready |-> ready.v]) ELSE Fail

(* The boolean members of PrinterFlags: wire key and field name. *)
FlagKeys == {"operational", "paused", "printing", "cancelling", "pausing",
             "sdReady", "error", "ready", "closedOrError", "finished",
             "prepared"}

de_PrinterFlags(j) ==
    IF j.t # "obj" THEN Fail
    ELSE LET link_state == de_String(field(j.o, "link_state"))
         IN  IF /\ \A k \in FlagKeys : de_bool(field(j.o, k)).ok
                /\ link_state.ok
             THEN Ok([operational |-> j.o["operational"].b,
                      paused |-> j.o["paused"].b,
                      printing |-> j.o["printing"].b,
                      cancelling |-> j.o["cancelling"].b,
                      pausing |-> j.o["pausing"].b,
                      sd_ready |-> j.o["sdReady"].b,
                      error |-> j.o["error"].b,
                      ready |-> j.o["ready"].b,
                      closed_or_error |-> j.o["closedOrError"].b,
                      finished |-> j.o["finished"].b,
                      prepared |-> j.o["prepared"].b,
                      link_state |-> link_state.v])
             ELSE Fail

de_PrinterState(j) ==
    IF j.t # "obj" THEN Fail
    ELSE LET text == de_String(field(j.o, "text"))
             flags == de_PrinterFlags(field(j.o, "flags"))
         IN  IF text.ok /\ flags.ok
             THEN Ok([text |-> text.v, flags |-> flags.v])
             ELSE Fail

de_PrinterTelemetry(j) ==
    IF j.t # "obj" THEN Fail
    ELSE LET bed_temp == de_f32(field(j.o, "bed_temp"))
             nozzle_temp == de_f32(field(j.o, "nozzle_temp"))
             material == de_String(field(j.o, "material"))
             z_height == de_f32(field(j.o, "z_height"))
             print_speed == de_f32(field(j.o, "print_speed"))
             axis_x == de_Option_f32(field(j.o, "axis_x"))
             axis_y == de_Option_f32(field(j.o, "axis_y"))
             axis_z == de_Option_f32(field(j.o, "axis_z"))
         IN  IF /\ bed_temp.ok /\ nozzle_temp.ok /\ material.ok
                /\ z_height.ok /\ print_speed.ok
                /\ axis_x.ok /\ axis_y.ok /\ axis_z.ok
             THEN Ok([bed_temp |-> bed_temp.v, nozzle_temp |-> nozzle_temp.v,
                      material |-> material.v, z_height |-> z_height.v,
                      print_speed |-> print_speed.v, axis_x |-> axis_x.v,
                      axis_y |-> axis_y.v, axis_z |-> axis_z.v])
             ELSE Fail

de_PrinterStorageInfo(j) ==
    IF j.t # "obj" THEN Fail
    ELSE LET free_space == de_u64(field(j.o, "free_space"))
             total_space == de_u64(field(j.o, "total_space"))
         IN  IF free_space.ok /\ total_space.ok
             THEN Ok([free_space |-> free_space.v,
                      total_space |-> total_space.v])
             ELSE Fail

de_Option_PrinterStorageInfo(j) ==
    IF j.t \in {"missing", "null"} THEN Ok(None)
    ELSE LET r == de_PrinterStorageInfo(j)
         IN  IF r.ok THEN Ok(Some(r.v)) ELSE Fail

de_PrinterStorage(j) ==
    IF j.t # "obj" THEN Fail
    ELSE LET local == de_Option_PrinterStorageInfo(field(j.o, "local"))
             sd_card == de_Option_PrinterStorageInfo(field(j.o, "sd_card"))
         IN  IF local.ok /\ sd_card.ok
             THEN Ok([local |-> local.v, sd_card |-> sd_card.v])
             ELSE Fail

de_RawPrinter(j) ==
    IF j.t # "obj" THEN Fail
    ELSE LET temperature == de_PrinterTemperature(field(j.o, "temperature"))
             sd == de_PrinterSd(field(j.o, "sd"))
             state == de_PrinterState(field(j.o, "state"))
             telemetry == de_PrinterTelemetry(field(j.o, "telemetry"))
             storage == de_PrinterStorage(field(j.o, "storage"))
         IN  IF /\ temperature.ok /\ sd.ok /\ state.ok
                /\ telemetry.ok /\ storage.ok
             THEN Ok([temperature |-> temperature.v, sd |-> sd.v,
                      state |-> state.v, telemetry |-> telemetry.v,
                      storage |-> storage.v])
             ELSE Fail

(* The tokens of s that are not JSON whitespace, in order. *)
skip_whitespace(s) == SelectSeq(s, LAMBDA tok : tok.t # "ws")

(* serde_json::from_str::<RawPrinter>: read one JSON value into the type,  *)
(* skipping JSON whitespace before it and accepting nothing else after it. *)
from_str(s) ==
    LET body == skip_whitespace(s)
    IN  IF Len(body) = 1 /\ IsJson(body[1]) THEN de_RawPrinter(body[1])
        ELSE Fail

(* RawPrinter::get_nozzle_temp and RawPrinter::get_bed_temp *)
RawPrinter_get_nozzle_temp(raw) == raw.telemetry.nozzle_temp
RawPrinter_get_bed_temp(raw) == raw.telemetry.bed_temp

----------------------------------------------------------------------------
(* What the printer's HTTP server can answer.                              *)

TempObj(actual, target) ==
    JObj([actual |-> JFloat(actual), target |-> JFloat(target)])

FlagsObj ==
    JObj([operational |-> JBool(FALSE), paused |-> JBool(FALSE),
          printing |-> JBool(TRUE), cancelling |-> JBool(FALSE),
          pausing |-> JBool(FALSE), sdReady |-> JBool(FALSE),
          error |-> JBool(FALSE), ready |-> JBool(FALSE),
          closedOrError |-> JBool(FALSE), finished |-> JBool(FALSE),
          prepared |-> JBool(FALSE), link_state |-> JStr("PRINTING")])

StorageInfoObj == JObj([free_space |-> JNum(56), total_space |-> JNum(61)])

(* The two temperature readings the server reports in this model. *)
Readings == <<[nozzle |-> 220, bed |-> 69], [nozzle |-> 215, bed |-> 60]>>

(* The /api/printer document of the shape RawPrinter declares, reporting   *)
(* reading r.                                                              *)
Payload(r) ==
    JObj([temperature |-> JObj([tool0 |-> TempObj(Readings[r].nozzle, 220),
                                bed |-> TempObj(Readings[r].bed, 70)]),
          sd |-> JObj([ready |-> JBool(FALSE)]),
          state |-> JObj([text |-> JStr("Printing"), flags |-> FlagsObj]),
          telemetry |-> JObj([bed_temp |-> JFloat(Readings[r].bed),
                              nozzle_temp |-> JFloat(Readings[r].nozzle),
                              material |-> JStr(" - "),
                              z_height |-> JFloat(16),
                              print_speed |-> JNum(100),
                              axis_x |-> JNull,
                              axis_y |-> JNull,
                              axis_z |-> JFloat(16)]),
          storage |-> JObj([local |-> StorageInfoObj, sd_card |-> JNull])])

(* Document j with the member at path set to v, or removed when v is       *)
(* Missing.  A path that leads through a member that is not an object      *)
(* leaves the document as it is.                                           *)
RECURSIVE Put(_, _, _)
Put(j, path, v) ==
    IF path = <<>> THEN v
    ELSE IF j.t # "obj" THEN j
    ELSE LET k == Head(path)
             sub == Put(field(j.o, k), Tail(path), v)
             keys == IF sub.t = "missing" THEN DOMAIN j.o \ {k}
                     ELSE DOMAIN j.o \cup {k}
         IN  JObj([x \in keys |-> IF x = k THEN sub ELSE j.o[x]])

(* The /api/printer document the test server of tests/mock.rs answers:     *)
(* its telemetry object names four members with hyphens.                   *)
mock_api_printer ==
    LET base == Payload(1)
        tel == base.o["telemetry"].o
    IN  Put(base, <<"telemetry">>,
            JObj([x \in {"temp-bed", "temp-nozzle", "material", "z-height",
                         "print-speed", "axis_x", "axis_y", "axis_z"} |->
                    CASE x = "temp-bed" -> tel["bed_temp"]
                      [] x = "temp-nozzle" -> tel["nozzle_temp"]
                      [] x = "z-height" -> tel["z_height"]
                      [] x = "print-speed" -> tel["print_speed"]
                      [] OTHER -> tel[x]]))

(* The response bodies the server answers in the client's state machine.   *)
Bodies ==
    <<  <<>>,
        <<WS, FF, WS>>,
        <<mock_api_printer>>,
        <<Payload(1)>>,
        <<WS, Payload(2), WS>>  >>

(* The outcome of one HTTP exchange: the request fails in send(), the body *)
(* read fails in text(), the caller drops the call while it awaits send()  *)
(* or text(), or a body arrives.                                           *)
NoNet == [kind |-> "none", body |-> <<>>]
Net(kind, body) == [kind |-> kind, body |-> body]

Nets ==
    {Net(k, <<>>) : k \in {"send_err", "text_err",
                            "send_dropped", "text_dropped"}}
    \cup {Net("body", Bodies[i]) : i \in 1..Len(Bodies)}

(* The members of the /api/printer document, by path. *)
Paths ==
    <<  <<"temperature">>,
        <<"temperature", "tool0">>,
        <<"temperature", "tool0", "actual">>,
        <<"temperature", "tool0", "target">>,
        <<"temperature", "bed">>,
        <<"temperature", "bed", "actual">>,
        <<"temperature", "bed", "target">>,
        <<"sd">>,
        <<"sd", "ready">>,
        <<"state">>,
        <<"state", "text">>,
        <<"state", "flags">>,
        <<"state", "flags", "operational">>,
        <<"state", "flags", "paused">>,
        <<"state", "flags", "printing">>,
        <<"state", "flags", "cancelling">>,
        <<"state", "flags", "pausing">>,
        <<"state", "flags", "sdReady">>,
        <<"state", "flags", "error">>,
        <<"state", "flags", "ready">>,
        <<"state", "flags", "closedOrError">>,
        <<"state", "flags", "finished">>,
        <<"state", "flags", "prepared">>,
        <<"state", "flags", "link_state">>,
        <<"telemetry">>,
        <<"telemetry", "bed_temp">>,
        <<"telemetry", "nozzle_temp">>,
        <<"telemetry", "material">>,
        <<"telemetry", "z_height">>,
        <<"telemetry", "print_speed">>,
        <<"telemetry", "axis_x">>,
        <<"telemetry", "axis_y">>,
        <<"telemetry", "axis_z">>,
        <<"storage">>,
        <<"storage", "local">>,
        <<"storage", "local", "free_space">>,
        <<"storage", "local", "total_space">>,
        <<"storage", "sd_card">>,
        <<"storage", "sd_card", "free_space">>,
        <<"storage", "unknown">>,
        <<"unknown">>  >>

(* What a member may be replaced by: nothing (the key is removed), null,   *)
(* a string, numbers, a boolean, objects.                                  *)
Replacements ==
    <<Missing, JNull, JStr("x"), JNum(7), JNum(-1), JFloat(7), JBool(TRUE),
      EmptyObj, StorageInfoObj>>

(* What may surround a document in the body. *)
Wrappings(doc) ==
    <<  <<doc>>,
        <<WS, doc, WS>>,
        <<FF, doc>>,
        <<doc, JUNK>>,
        <<doc, WS, doc>>,
        <<JUNK>>  >>

(* The bodies the decoder is exercised on: the document with one member    *)
(* replaced, alone in the body; and the document or a replacement alone,   *)
(* wrapped.                                                                *)
DecoderBodies ==
    {<<Put(Payload(1), Paths[p], Replacements[m])>> :
        p \in 1..Len(Paths), m \in 1..Len(Replacements)}
    \cup {Wrappings(Payload(2))[w] : w \in 1..Len(Wrappings(Payload(2)))}
    \cup {Wrappings(Replacements[m])[w] :
            w \in 1..2, m \in 2..Len(Replacements)}

DecoderNets == {Net("body", body) : body \in DecoderBodies}

----------------------------------------------------------------------------
(* PrinterBuilder *)

PrinterBuilder_new(a, k) ==
    [address |-> a, api_key |-> k, port |-> DefaultPort,
     auto_refresh |-> Some(DefaultAutoRefresh)]

(* Seeded fault: port() returns a builder with the default policy. *)
PrinterBuilder_port_resets_policy(b, p) ==
    [b EXCEPT !.port = p, !.auto_refresh = Some(DefaultAutoRefresh)]

PrinterBuilder_port(b, p) == [b EXCEPT !.port = p]

PrinterBuilder_auto_refresh(b, d) == [b EXCEPT !.auto_refresh = Some(d)]

(* Seeded fault: build() stamps the client as refreshed at construction. *)
PrinterBuilder_build_stamped(b) ==
    [address |-> b.address, port |-> b.port, api_key |-> b.api_key,
     printer |-> None, last_refresh |-> Some(0),
     auto_refresh |-> b.auto_refresh]

PrinterBuilder_build(b) ==
    [address |-> b.address, port |-> b.port, api_key |-> b.api_key,
     printer |-> None, last_refresh |-> None,
     auto_refresh |-> b.auto_refresh]

----------------------------------------------------------------------------
(* Printer.  A method is an operator from the client (self), the outcome   *)
(* of the HTTP exchange it may start (net) and the clock to what it        *)
(* returns: the client afterwards, the Result, the number of requests it   *)
(* sent and the value inside Ok.                                           *)

Success == [ok |-> TRUE, err |-> ""]
Err(msg) == [ok |-> FALSE, err |-> msg]

TransportError == "reqwest::Error"
EmptyResponse == "Received an empty response from the server"
JsonError == "serde_json::Error"
UnwrapNone == "called Option::unwrap() on a None value"

(* The caller drops the future of a call (it cancels it, or its timeout    *)
(* fires) while the call is suspended in send().await or in text().await:  *)
(* the call ends at that await and returns nothing.                        *)
Dropped == [ok |-> FALSE, err |-> "future dropped"]

DroppedKinds == {"send_dropped", "text_dropped"}

(* How a call ends that gets no body: ? returns the error of the exchange, *)
(* or the call never resumes.                                              *)
no_body(net) ==
    IF net.kind \in DroppedKinds THEN Dropped ELSE Err(TransportError)

Out(self, ret, sent, val, info, text) ==
    [self |-> self, ret |-> ret, sent |-> sent,
     val |-> val, info |-> info, text |-> text]

(* client.get(url).header(..).send().await?.text().await? *)
get_text(net) == IF net.kind = "body" THEN Ok(net.body) ELSE Fail

(* Seeded fault: get_version() drops the cached snapshot when it fails. *)
Printer_get_version_invalidating(self, net) ==
    LET body == get_text(net)
    IN  IF ~body.ok
        THEN Out([self EXCEPT !.printer = None, !.last_refresh = None],
                 no_body(net), 1, None, None, None)
        ELSE Out(self, Success, 1, None, None, Some(body.v))

Printer_get_version(self, net) ==
    LET body == get_text(net)
    IN  IF ~body.ok THEN Out(self, no_body(net), 1, None, None, None)
        ELSE Out(self, Success, 1, None, None, Some(body.v))

(* Seeded fault: get_printer_info() keeps the snapshot it returns. *)
Printer_get_printer_info_caching(self, net) ==
    LET raw_printer_text == get_text(net)
    IN  IF ~raw_printer_text.ok
        THEN Out(self, no_body(net), 1, None, None, None)
        ELSE IF is_empty(trim(raw_printer_text.v))
        THEN Out(self, Err(EmptyResponse), 1, None, None, None)
        ELSE LET raw == from_str(raw_printer_text.v)
             IN  IF ~raw.ok
                 THEN Out(self, Err(JsonError), 1, None, None, None)
                 ELSE Out([self EXCEPT !.printer = Some(raw.v)],
                          Success, 1, None, Some(raw.v), None)

Printer_get_printer_info(self, net) ==
    LET raw_printer_text == get_text(net)
    IN  IF ~raw_printer_text.ok
        THEN Out(self, no_body(net), 1, None, None, None)
        ELSE IF is_empty(trim(raw_printer_text.v))
        THEN Out(self, Err(EmptyResponse), 1, None, None, None)
        ELSE LET raw == from_str(raw_printer_text.v)
             IN  IF ~raw.ok
                 THEN Out(self, Err(JsonError), 1, None, None, None)
                 ELSE Out(self, Success, 1, None, Some(raw.v), None)

(* Seeded fault: refresh() writes the timestamp before it decodes. *)
Printer_refresh_stamps_first(self, net, t) ==
    LET raw_printer_text == get_text(net)
    IN  IF ~raw_printer_text.ok
        THEN Out(self, no_body(net), 1, None, None, None)
        ELSE IF is_empty(trim(raw_printer_text.v))
        THEN Out(self, Err(EmptyResponse), 1, None, None, None)
        ELSE LET raw == from_str(raw_printer_text.v)
                 stamped == [self EXCEPT !.last_refresh = Some(t)]
             IN  IF ~raw.ok
                 THEN Out(stamped, Err(JsonError), 1, None, None, None)
                 ELSE Out([stamped EXCEPT !.printer = Some(raw.v)],
                          Success, 1, None, None, None)

(* Seeded fault: refresh() drops the cached snapshot before it fetches. *)
Printer_refresh_clears_first(self, net, t) ==
    LET raw_printer_text == get_text(net)
        cleared == [self EXCEPT !.printer = None, !.last_refresh = None]
    IN  IF ~raw_printer_text.ok
        THEN Out(cleared, no_body(net), 1, None, None, None)
        ELSE IF is_empty(trim(raw_printer_text.v))
        THEN Out(cleared, Err(EmptyResponse), 1, None, None, None)
        ELSE LET raw == from_str(raw_printer_text.v)
             IN  IF ~raw.ok
                 THEN Out(cleared, Err(JsonError), 1, None, None, None)
                 ELSE Out([self EXCEPT !.printer = Some(raw.v),
                                       !.last_refresh = Some(t)],
                          Success, 1, None, None, None)

(* Seeded fault: refresh() returns at once while the snapshot is fresh. *)
Printer_refresh_if_stale(self, net, t) ==
    IF /\ self.last_refresh.some
       /\ self.auto_refresh.some
       /\ t - self.last_refresh.v <= self.auto_refresh.v
    THEN Out(self, Success, 0, None, None, None)
    ELSE LET raw_printer_text == get_text(net)
         IN  IF ~raw_printer_text.ok
             THEN Out(self, no_body(net), 1, None, None, None)
             ELSE IF is_empty(trim(raw_printer_text.v))
             THEN Out(self, Err(EmptyResponse), 1, None, None, None)
             ELSE LET raw == from_str(raw_printer_text.v)
                  IN  IF ~raw.ok
                      THEN Out(self, Err(JsonError), 1, None, None, None)
                      ELSE Out([self EXCEPT !.printer = Some(raw.v),
                                            !.last_refresh = Some(t)],
                               Success, 1, None, None, None)

(* Seeded fault: refresh() records the time of an attempt that failed in   *)
(* the transport.                                                          *)
Printer_refresh_stamps_attempt(self, net, t) ==
    LET raw_printer_text == get_text(net)
    IN  IF ~raw_printer_text.ok
        THEN Out([self EXCEPT !.last_refresh = Some(t)],
                 no_body(net), 1, None, None, None)
        ELSE IF is_empty(trim(raw_printer_text.v))
        THEN Out(self, Err(EmptyResponse), 1, None, None, None)
        ELSE LET raw == from_str(raw_printer_text.v)
             IN  IF ~raw.ok
                 THEN Out(self, Err(JsonError), 1, None, None, None)
                 ELSE Out([self EXCEPT !.printer = Some(raw.v),
                                       !.last_refresh = Some(t)],
                          Success, 1, None, None, None)

(* Seeded fault: refresh() writes the timestamp and not the snapshot. *)
Printer_refresh_stamp_only(self, net, t) ==
    LET raw_printer_text == get_text(net)
    IN  IF ~raw_printer_text.ok
        THEN Out(self, no_body(net), 1, None, None, None)
        ELSE IF is_empty(trim(raw_printer_text.v))
        THEN Out(self, Err(EmptyResponse), 1, None, None, None)
        ELSE LET raw == from_str(raw_printer_text.v)
             IN  IF ~raw.ok
                 THEN Out(self, Err(JsonError), 1, None, None, None)
                 ELSE Out([self EXCEPT !.last_refresh = Some(t)],
                          Success, 1, None, None, None)

(* Seeded fault: refresh() writes the timestamp before it awaits the       *)
(* exchange.                                                               *)
Printer_refresh_stamps_before_await(self, net, t) ==
    LET raw_printer_text == get_text(net)
        stamped == [self EXCEPT !.last_refresh = Some(t)]
    IN  IF net.kind \in DroppedKinds
        THEN Out(stamped, no_body(net), 1, None, None, None)
        ELSE IF ~raw_printer_text.ok
        THEN Out(self, no_body(net), 1, None, None, None)
        ELSE IF is_empty(trim(raw_printer_text.v))
        THEN Out(self, Err(EmptyResponse), 1, None, None, None)
        ELSE LET raw == from_str(raw_printer_text.v)
             IN  IF ~raw.ok
                 THEN Out(self, Err(JsonError), 1, None, None, None)
                 ELSE Out([stamped EXCEPT !.printer = Some(raw.v)],
                          Success, 1, None, None, None)

(* t is the value of Instant::now(). *)
Printer_refresh(self, net, t) ==
    LET raw_printer_text == get_text(net)
    IN  IF ~raw_printer_text.ok
        THEN Out(self, no_body(net), 1, None, None, None)
        ELSE IF is_empty(trim(raw_printer_text.v))
        THEN Out(self, Err(EmptyResponse), 1, None, None, None)
        ELSE LET raw == from_str(raw_printer_text.v)
             IN  IF ~raw.ok
                 THEN Out(self, Err(JsonError), 1, None, None, None)
                 ELSE Out([self EXCEPT !.printer = Some(raw.v),
                                       !.last_refresh = Some(t)],
                          Success, 1, None, None, None)

(* Seeded fault: the comparison with the duration is not strict. *)
needs_refresh_ge(last_refresh_, auto_refresh_, t) ==
    CASE last_refresh_.some /\ auto_refresh_.some
           /\ t - last_refresh_.v >= auto_refresh_.v -> TRUE
      [] ~last_refresh_.some -> TRUE
      [] OTHER -> FALSE

(* Seeded fault: without a duration every read refreshes. *)
needs_refresh_without_duration(last_refresh_, auto_refresh_, t) ==
    CASE last_refresh_.some /\ auto_refresh_.some
           /\ t - last_refresh_.v > auto_refresh_.v -> TRUE
      [] ~last_refresh_.some -> TRUE
      [] ~auto_refresh_.some -> TRUE
      [] OTHER -> FALSE

(* Seeded fault: the arm for a client that never refreshed is missing. *)
needs_refresh_only_elapsed(last_refresh_, auto_refresh_, t) ==
    CASE last_refresh_.some /\ auto_refresh_.some
           /\ t - last_refresh_.v > auto_refresh_.v -> TRUE
      [] OTHER -> FALSE

(* The match of refresh_if_necessary; t - time is time.elapsed(). *)
needs_refresh(last_refresh_, auto_refresh_, t) ==
    CASE last_refresh_.some /\ auto_refresh_.some
           /\ t - last_refresh_.v > auto_refresh_.v -> TRUE
      [] ~last_refresh_.some -> TRUE
      [] OTHER -> FALSE

(* Seeded fault: a refresh that fails is tried once more. *)
Printer_refresh_if_necessary_retrying(self, net, t) ==
    IF needs_refresh(self.last_refresh, self.auto_refresh, t)
    THEN LET first == Printer_refresh(self, net, t)
             second == Printer_refresh(first.self, net, t)
         IN  IF first.ret.ok THEN first
             ELSE Out(second.self, second.ret, first.sent + second.sent,
                      None, None, None)
    ELSE Out(self, Success, 0, None, None, None)

Printer_refresh_if_necessary(self, net, t) ==
    IF needs_refresh(self.last_refresh, self.auto_refresh, t)
    THEN Printer_refresh(self, net, t)
    ELSE Out(self, Success, 0, None, None, None)

(* Seeded fault: the accessor ignores the Result of the refresh. *)
Printer_get_nozzle_temp_lenient(self, net, t) ==
    LET r == Printer_refresh_if_necessary(self, net, t)
    IN  IF ~r.self.printer.some
        THEN Out(r.self, Err(UnwrapNone), r.sent, None, None, None)
        ELSE Out(r.self, Success, r.sent,
                 Some(RawPrinter_get_nozzle_temp(r.self.printer.v)),
                 None, None)

Printer_get_nozzle_temp(self, net, t) ==
    LET r == Printer_refresh_if_necessary(self, net, t)
    IN  IF ~r.ret.ok THEN r
        ELSE IF ~r.self.printer.some
        THEN Out(r.self, Err(UnwrapNone), r.sent, None, None, None)
        ELSE Out(r.self, Success, r.sent,
                 Some(RawPrinter_get_nozzle_temp(r.self.printer.v)),
                 None, None)

(* Seeded fault: the accessor reads the snapshot it held before the        *)
(* refresh, when it held one.                                              *)
Printer_get_bed_temp_reads_before_refresh(self, net, t) ==
    LET r == Printer_refresh_if_necessary(self, net, t)
        snapshot == IF self.printer.some THEN self.printer ELSE r.self.printer
    IN  IF ~r.ret.ok THEN r
        ELSE IF ~snapshot.some
        THEN Out(r.self, Err(UnwrapNone), r.sent, None, None, None)
        ELSE Out(r.self, Success, r.sent,
                 Some(RawPrinter_get_bed_temp(snapshot.v)),
                 None, None)

Printer_get_bed_temp(self, net, t) ==
    LET r == Printer_refresh_if_necessary(self, net, t)
    IN  IF ~r.ret.ok THEN r
        ELSE IF ~r.self.printer.some
        THEN Out(r.self, Err(UnwrapNone), r.sent, None, None, None)
        ELSE Out(r.self, Success, r.sent,
                 Some(RawPrinter_get_bed_temp(r.self.printer.v)),
                 None, None)

Printer_change_address(self, a) == [self EXCEPT !.address = a]

(* Seeded fault: a new key drops the snapshot fetched with the old one. *)
Printer_change_api_key_invalidating(self, k) ==
    [self EXCEPT !.api_key = k, !.printer = None, !.last_refresh = None]

Printer_change_api_key(self, k) == [self EXCEPT !.api_key = k]

----------------------------------------------------------------------------
(* The state machine *)

(* The struct that exists, as a record of its fields. *)
Builder ==
    [address |-> address, api_key |-> api_key, port |-> port,
     auto_refresh |-> auto_refresh]

Self ==
    [address |-> address, port |-> port, api_key |-> api_key,
     printer |-> printer, last_refresh |-> last_refresh,
     auto_refresh |-> auto_refresh]

Cache(self) == [printer |-> self.printer, last_refresh |-> self.last_refresh]

(* The latest call was a refresh() that failed in the transport while a     *)
(* snapshot was cached.                                                    *)
RefreshJustFailed ==
    /\ last.op = "refresh"
    /\ last.ret = Err(TransportError)
    /\ last.pre.printer.some

(* The record of the latest call: the method, the path it requested, the   *)
(* outcome of the exchange, the clock and the cache when it was called,    *)
(* whether it is an accessor called next after a refresh() that failed in  *)
(* the transport, and what it returned.  For port() and auto_refresh(),    *)
(* arg is the port or the number of seconds passed.                        *)
NoCall ==
    [op |-> "none", arg |-> 0, path |-> "", net |-> NoNet, at |-> 0,
     pre |-> [printer |-> None, last_refresh |-> None],
     after_failed_refresh |-> FALSE,
     ret |-> Success, sent |-> 0, val |-> None, info |-> None, text |-> None]

(* No Printer exists before build(): its cache fields read None. *)
SetBuilder(b) ==
    /\ stage' = "PrinterBuilder"
    /\ address' = b.address
    /\ api_key' = b.api_key
    /\ port' = b.port
    /\ auto_refresh' = b.auto_refresh
    /\ UNCHANGED <<printer, last_refresh>>

SetSelf(self) ==
    /\ stage' = "Printer"
    /\ address' = self.address
    /\ api_key' = self.api_key
    /\ port' = self.port
    /\ auto_refresh' = self.auto_refresh
    /\ printer' = self.printer
    /\ last_refresh' = self.last_refresh

Init ==
    /\ stage = "PrinterBuilder"
    /\ \E a \in Addresses, k \in ApiKeys :
          LET b == PrinterBuilder_new(a, k)
          IN  /\ address = b.address
              /\ api_key = b.api_key
              /\ port = b.port
              /\ auto_refresh = b.auto_refresh
    /\ printer = None
    /\ last_refresh = None
    /\ now = 0
    /\ last = NoCall

Port(p) ==
    /\ stage = "PrinterBuilder"
    /\ SetBuilder(PrinterBuilder_port(Builder, p))
    /\ last' = [NoCall EXCEPT !.op = "port", !.arg = p]
    /\ UNCHANGED now

AutoRefresh(d) ==
    /\ stage = "PrinterBuilder"
    /\ SetBuilder(PrinterBuilder_auto_refresh(Builder, d))
    /\ last' = [NoCall EXCEPT !.op = "auto_refresh", !.arg = d]
    /\ UNCHANGED now

Build ==
    /\ stage = "PrinterBuilder"
    /\ SetSelf(PrinterBuilder_build(Builder))
    /\ last' = [NoCall EXCEPT !.op = "build"]
    /\ UNCHANGED now

(* A call of a method that may talk to the server: out is what the method  *)
(* returns from this state under the exchange net.                         *)
Call(op, path, net, out) ==
    /\ stage = "Printer"
    /\ SetSelf(out.self)
    /\ now' = now
    /\ last' = [op |-> op, arg |-> 0,
                path |-> IF out.sent > 0 THEN path ELSE "",
                net |-> IF out.sent > 0 THEN net ELSE NoNet,
                at |-> now, pre |-> Cache(Self),
                after_failed_refresh |->
                    op \in {"get_nozzle_temp", "get_bed_temp"}
                    /\ RefreshJustFailed,
                ret |-> out.ret, sent |-> out.sent, val |-> out.val,
                info |-> out.info, text |-> out.text]

GetVersion(net) ==
    Call("get_version", "/api/version", net, Printer_get_version(Self, net))

GetPrinterInfo(net) ==
    Call("get_printer_info", "/api/printer", net,
         Printer_get_printer_info(Self, net))

Refresh(net) ==
    Call("refresh", "/api/printer", net,
         Printer_refresh(Self, net, now))

GetNozzleTemp(net) ==
    Call("get_nozzle_temp", "/api/printer", net,
         Printer_get_nozzle_temp(Self, net, now))

GetBedTemp(net) ==
    Call("get_bed_temp", "/api/printer", net,
         Printer_get_bed_temp(Self, net, now))

ChangeAddress(a) ==
    /\ stage = "Printer"
    /\ SetSelf(Printer_change_address(Self, a))
    /\ last' = [NoCall EXCEPT !.op = "change_address", !.at = now,
                              !.pre = Cache(Self)]
    /\ UNCHANGED now

ChangeApiKey(k) ==
    /\ stage = "Printer"
    /\ SetSelf(Printer_change_api_key(Self, k))
    /\ last' = [NoCall EXCEPT !.op = "change_api_key", !.at = now,
                              !.pre = Cache(Self)]
    /\ UNCHANGED now

(* Time passes between two calls. *)
Tick ==
    /\ stage = "Printer"
    /\ now < MaxTime
    /\ now' = now + 1
    /\ UNCHANGED <<stage, address, api_key, port, auto_refresh, printer,
                   last_refresh, last>>

Next ==
    \/ \E p \in Ports : Port(p)
    \/ \E d \in Durations : AutoRefresh(d)
    \/ Build
    \/ \E net \in Nets : GetVersion(net)
    \/ \E net \in Nets : GetPrinterInfo(net)
    \/ \E net \in Nets : Refresh(net)
    \/ \E net \in Nets : GetNozzleTemp(net)
    \/ \E net \in Nets : GetBedTemp(net)
    \/ \E a \in Addresses : ChangeAddress(a)
    \/ \E k \in ApiKeys : ChangeApiKey(k)
    \/ Tick

Spec == Init /\ [][Next]_vars

(* The builder holding any value its fields' types admit: auto_refresh is  *)
(* an Option<Duration>, and may be None, which new() and auto_refresh()    *)
(* never assign.  The decision of refresh_if_necessary is checked from     *)
(* here for every policy a Printer can hold.                               *)
InitAnyPolicy ==
    /\ stage = "PrinterBuilder"
    /\ address \in Addresses
    /\ api_key \in ApiKeys
    /\ port = DefaultPort
    /\ auto_refresh \in {None} \cup {Some(d) : d \in Durations}
    /\ printer = None
    /\ last_refresh = None
    /\ now = 0
    /\ last = NoCall

SpecAnyPolicy == InitAnyPolicy /\ [][Next]_vars

(* The decoder alone: a client as build() leaves it, asked for the printer *)
(* information against a server that answers any of the decoder's bodies.  *)
InitDecoder ==
    /\ stage = "Printer"
    /\ \E a \in {"prusa.local"}, k \in {"key-a"} :
          LET self == PrinterBuilder_build(PrinterBuilder_new(a, k))
          IN  /\ address = self.address
              /\ api_key = self.api_key
              /\ port = self.port
              /\ auto_refresh = self.auto_refresh
              /\ printer = self.printer
              /\ last_refresh = self.last_refresh
    /\ now = 0
    /\ last = NoCall

NextDecoder == \E net \in DecoderNets : GetPrinterInfo(net)

SpecDecoder == InitDecoder /\ [][NextDecoder]_vars

----------------------------------------------------------------------------
(* Vocabulary of the properties *)

Accessors == {"get_nozzle_temp", "get_bed_temp"}

(* The field an accessor projects out of a snapshot. *)
ReadOf(op, raw) ==
    IF op = "get_nozzle_temp" THEN raw.telemetry.nozzle_temp
    ELSE raw.telemetry.bed_temp

(* The body holds nothing but whitespace (or nothing at all). *)
WhitespaceOnly(body) == \A i \in 1..Len(body) : body[i].t \in {"ws", "uws"}

(* The exchange delivers a body that decodes to a snapshot. *)
Delivers(net) ==
    /\ net.kind = "body"
    /\ ~WhitespaceOnly(net.body)
    /\ from_str(net.body).ok

(* The cache as it is now. *)
CacheNow == [printer |-> printer, last_refresh |-> last_refresh]

(* Time between the last successful fetch before the latest call and that  *)
(* call.                                                                   *)
ElapsedAtCall == last.at - last.pre.last_refresh.v

----------------------------------------------------------------------------
(* C1: a refresh() or an accessor that returns an error, whatever the      *)
(* failure (transport, empty or whitespace body, undecodable body), leaves *)
(* the cached snapshot and the last-fetch timestamp exactly as they were   *)
(* before the call.                                                        *)
C1_FailedRefreshKeepsCache ==
    (last.op \in Accessors \cup {"refresh"} /\ ~last.ret.ok)
        => CacheNow = last.pre

(* A refresh fails to decode its body while a snapshot is cached. *)
C1_Witness ==
    /\ last.op = "refresh"
    /\ last.ret = Err(JsonError)
    /\ last.pre.printer.some
    /\ printer.some

(* C2: in every state the cached snapshot is present exactly when the      *)
(* last-fetch timestamp is present.                                        *)
C2_SnapshotIffTimestamp == printer.some <=> last_refresh.some

(* Both are present after a fetch replaced an older pair. *)
C2_Witness ==
    /\ printer.some
    /\ last_refresh.some
    /\ last.pre.printer.some
    /\ last.pre.last_refresh.some
    /\ last.pre.last_refresh # last_refresh

(* C3: an accessor that refreshes over a cached snapshot and whose refresh *)
(* fails returns the error and no value.                                   *)
C3_FailedRefreshFailsAccessor ==
    (/\ last.op \in Accessors
     /\ last.sent > 0
     /\ last.pre.printer.some
     /\ ~Delivers(last.net))
        => (~last.ret.ok /\ last.val = None)

(* An accessor found its snapshot stale, fetched, and the transport failed. *)
C3_Witness ==
    /\ last.op = "get_nozzle_temp"
    /\ last.sent = 1
    /\ last.pre.printer.some
    /\ last.net.kind = "send_err"
    /\ ~last.ret.ok

(* C4: under a time to live d, an accessor called exactly d after the last *)
(* successful fetch sends nothing and returns the cached value; called     *)
(* later than d after it, it fetches.                                      *)
C4_StalenessIsStrict ==
    (/\ last.op \in Accessors
     /\ auto_refresh.some
     /\ last.pre.last_refresh.some)
        => /\ ElapsedAtCall = auto_refresh.v
                => /\ last.sent = 0
                   /\ last.ret.ok
                   /\ last.val = Some(ReadOf(last.op, last.pre.printer.v))
           /\ ElapsedAtCall > auto_refresh.v => last.sent = 1

(* A read exactly at the default time to live after the fetch. *)
C4_Witness ==
    /\ last.op \in Accessors
    /\ auto_refresh = Some(DefaultAutoRefresh)
    /\ last.pre.last_refresh.some
    /\ ElapsedAtCall = DefaultAutoRefresh
    /\ last.sent = 0

(* C5: without a refresh duration (auto_refresh = None), an accessor       *)
(* called while a snapshot is cached sends no request, however long ago    *)
(* the snapshot was fetched.                                               *)
C5_DisabledNeverRefetches ==
    (/\ last.op \in Accessors
     /\ ~auto_refresh.some
     /\ last.pre.printer.some)
        => /\ last.sent = 0
           /\ last.ret.ok
           /\ CacheNow = last.pre

(* A read of a snapshot as old as the clock allows, under no duration. *)
C5_Witness ==
    /\ last.op \in Accessors
    /\ ~auto_refresh.some
    /\ last.pre.printer.some
    /\ last.pre.last_refresh = Some(0)
    /\ last.at = MaxTime
    /\ last.sent = 0

(* C6: an accessor called on an empty cache sends a request, under every   *)
(* policy, and returns a value only out of what that request fetched.      *)
C6_FirstReadFetches ==
    (/\ last.op \in Accessors
     /\ ~last.pre.printer.some
     /\ ~last.pre.last_refresh.some)
        => /\ last.sent = 1
           /\ last.ret.ok => Delivers(last.net)

(* The first read of a client without a refresh duration fetched. *)
C6_Witness ==
    /\ last.op \in Accessors
    /\ ~auto_refresh.some
    /\ ~last.pre.printer.some
    /\ last.sent = 1
    /\ last.ret.ok

(* This step is the first accessor call after a refresh() that failed in   *)
(* the transport while a snapshot was cached.                              *)
ReadAfterFailedRefresh == RefreshJustFailed /\ last'.op \in Accessors

(* The snapshot cached before the failed refresh is within its time to     *)
(* live when the accessor is called, or there is no time to live.          *)
StillFresh ==
    \/ ~auto_refresh.some
    \/ now - last.pre.last_refresh.v <= auto_refresh.v

(* C7 as stated: after a refresh() that failed in the transport over a     *)
(* cached snapshot, the next accessor call returns the value of that       *)
(* snapshot.                                                               *)
C7_NextReadReturnsOldValue ==
    [][ReadAfterFailedRefresh
         => /\ last'.ret.ok
            /\ last'.val = Some(ReadOf(last'.op, last.pre.printer.v))]_vars

(* C7, amended: a refresh() that fails in the transport over a cached      *)
(* snapshot returns an error and no value, and the next accessor call      *)
(* returns the value of that snapshot, without a request, if the snapshot  *)
(* is still within its time to live; if it is older, the call fetches.     *)
C7_NextFreshReadReturnsOldValue ==
    [][ReadAfterFailedRefresh
         => /\ ~last.ret.ok /\ last.val = None /\ CacheNow = last.pre
            /\ StillFresh
                 => /\ last'.sent = 0
                    /\ last'.ret.ok
                    /\ last'.val = Some(ReadOf(last'.op, last.pre.printer.v))
            /\ ~StillFresh => last'.sent = 1]_vars

(* An accessor returned the cached value right after a refresh() failed in *)
(* the transport.                                                          *)
C7_Witness ==
    /\ last.op \in Accessors
    /\ last.after_failed_refresh
    /\ last.sent = 0
    /\ last.ret.ok
    /\ last.val = Some(ReadOf(last.op, printer.v))

(* C8: refresh() sends a request whatever the policy and however fresh the *)
(* snapshot, and when it succeeds the cache holds the snapshot decoded     *)
(* from the body it fetched and the time of the call.                      *)
C8_ForcedRefreshAlwaysFetches ==
    last.op = "refresh"
        => /\ last.sent = 1
           /\ last.path = "/api/printer"
           /\ last.ret.ok
                => /\ Delivers(last.net)
                   /\ printer = Some(from_str(last.net.body).v)
                   /\ last_refresh = Some(last.at)

(* A refresh() replaced a snapshot fetched at the same instant by another. *)
C8_Witness ==
    /\ last.op = "refresh"
    /\ last.ret.ok
    /\ last.pre.printer.some
    /\ last.pre.last_refresh = Some(last.at)
    /\ last.pre.printer # printer

(* C9: refresh() and get_printer_info() answer a body that is empty or all *)
(* whitespace with the empty-response error, not with a decoding error,    *)
(* and produce no snapshot from it.                                        *)
C9_EmptyBodyRejected ==
    (/\ last.op \in {"refresh", "get_printer_info"}
     /\ last.net.kind = "body"
     /\ WhitespaceOnly(last.net.body))
        => /\ last.ret = Err(EmptyResponse)
           /\ last.info = None
           /\ CacheNow = last.pre

(* get_printer_info() received a body of whitespace alone. *)
C9_Witness ==
    /\ last.op = "get_printer_info"
    /\ last.net.kind = "body"
    /\ last.net.body # <<>>
    /\ WhitespaceOnly(last.net.body)
    /\ ~last.ret.ok

----------------------------------------------------------------------------
(* The schema of the snapshot as the specification lists it: the fields    *)
(* that are required, and the fields that are optional, with their types.  *)

RequiredFields ==
    {[path |-> <<"temperature", dev, part>>, type |-> "float"] :
        dev \in {"tool0", "bed"}, part \in {"actual", "target"}}
    \cup {[path |-> <<"sd", "ready">>, type |-> "bool"],
          [path |-> <<"state", "text">>, type |-> "string"],
          [path |-> <<"state", "flags", "link_state">>, type |-> "string"],
          [path |-> <<"telemetry", "material">>, type |-> "string"],
          [path |-> <<"storage">>, type |-> "object"]}
    \cup {[path |-> <<"state", "flags", k>>, type |-> "bool"] :
            k \in {"operational", "paused", "printing", "cancelling",
                   "pausing", "sdReady", "error", "ready", "closedOrError",
                   "finished", "prepared"}}
    \cup {[path |-> <<"telemetry", k>>, type |-> "float"] :
            k \in {"bed_temp", "nozzle_temp", "z_height", "print_speed"}}

OptionalFields ==
    {[path |-> <<"telemetry", k>>, type |-> "float"] :
        k \in {"axis_x", "axis_y", "axis_z"}}
    \cup {[path |-> <<"storage", k>>, type |-> "storage info"] :
            k \in {"local", "sd_card"}}

(* The member of document j at path, or Missing. *)
RECURSIVE Lookup(_, _)
Lookup(j, path) ==
    IF path = <<>> THEN j
    ELSE IF j.t # "obj" \/ Head(path) \notin DOMAIN j.o THEN Missing
    ELSE Lookup(j.o[Head(path)], Tail(path))

IsSize(v) == v.t = "num" /\ v.int /\ v.n >= 0

HasType(v, type) ==
    CASE type = "float" -> v.t = "num"
      [] type = "bool" -> v.t = "bool"
      [] type = "string" -> v.t = "str"
      [] type = "object" -> v.t = "obj"
      [] type = "storage info" ->
            /\ v.t = "obj"
            /\ IsSize(Lookup(v, <<"free_space">>))
            /\ IsSize(Lookup(v, <<"total_space">>))

Absent(v) == v.t \in {"missing", "null"}

RequiredPresent(j) ==
    \A f \in RequiredFields : HasType(Lookup(j, f.path), f.type)

OptionalAcceptable(j) ==
    \A f \in OptionalFields :
        Absent(Lookup(j, f.path)) \/ HasType(Lookup(j, f.path), f.type)

(* The body is one JSON document, with JSON whitespace around it at most. *)
IsDocument(body) ==
    \E i \in 1..Len(body) :
        /\ IsJson(body[i])
        /\ \A k \in 1..Len(body) : k # i => body[k].t = "ws"

DocumentOf(body) == body[CHOOSE i \in 1..Len(body) : IsJson(body[i])]

(* The optional field at path, as the decoded snapshot holds it. *)
Decoded(raw, path) ==
    CASE path = <<"telemetry", "axis_x">> -> raw.telemetry.axis_x
      [] path = <<"telemetry", "axis_y">> -> raw.telemetry.axis_y
      [] path = <<"telemetry", "axis_z">> -> raw.telemetry.axis_z
      [] path = <<"storage", "local">> -> raw.storage.local
      [] path = <<"storage", "sd_card">> -> raw.storage.sd_card

(* get_printer_info() was called and a body arrived. *)
DecodedABody == last.op = "get_printer_info" /\ last.net.kind = "body"

(* C10 as stated: a payload decodes to a snapshot if and only if every     *)
(* required field is present and well-typed.                               *)
C10_DecodesIffRequiredPresent ==
    (DecodedABody /\ IsDocument(last.net.body))
        => (last.ret.ok <=> RequiredPresent(DocumentOf(last.net.body)))

(* C10, amended: a payload decodes to a snapshot if and only if every      *)
(* required field is present and well-typed and every optional field is    *)
(* missing, null or well-typed; decoding yields a whole snapshot or none;  *)
(* and an optional field that is missing or null is absent in the          *)
(* snapshot.                                                               *)
C10_DecodesIffWellTyped ==
    DecodedABody
        => /\ last.ret.ok <=> last.info.some
           /\ last.ret.ok
                <=> /\ IsDocument(last.net.body)
                    /\ RequiredPresent(DocumentOf(last.net.body))
                    /\ OptionalAcceptable(DocumentOf(last.net.body))
           /\ last.ret.ok
                => \A f \in OptionalFields :
                     Absent(Lookup(DocumentOf(last.net.body), f.path))
                        <=> Decoded(last.info.v, f.path) = None

(* A payload whose optional axis_x is missing decoded, to a snapshot       *)
(* without axis_x.                                                         *)
C10_Witness ==
    /\ DecodedABody
    /\ IsDocument(last.net.body)
    /\ Lookup(DocumentOf(last.net.body), <<"telemetry", "axis_x">>) = Missing
    /\ last.ret.ok
    /\ last.info.v.telemetry.axis_x = None
    /\ last.info.v.telemetry.axis_z # None

----------------------------------------------------------------------------
(* The body the test server of tests/mock.rs answers, received whole. *)
ReceivedMockBody ==
    /\ last.sent = 1
    /\ last.net = Net("body", <<mock_api_printer>>)

(* The number the test server's document holds under a telemetry key. *)
MockTelemetry(k) == Lookup(mock_api_printer, <<"telemetry", k>>).n

(* C11: the document of the test server, whose telemetry names temp-bed,   *)
(* temp-nozzle, z-height and print-speed, is decoded by get_printer_info() *)
(* and by the accessors, and the decoded bed temperature, nozzle           *)
(* temperature, z height and print speed are the numbers under those keys. *)
C11_MockPayloadDecodes ==
    (last.op \in Accessors \cup {"get_printer_info"} /\ ReceivedMockBody)
        => /\ last.ret.ok
           /\ last.op = "get_printer_info"
                => /\ last.info.some
                   /\ last.info.v.telemetry.bed_temp
                        = MockTelemetry("temp-bed")
                   /\ last.info.v.telemetry.nozzle_temp
                        = MockTelemetry("temp-nozzle")
                   /\ last.info.v.telemetry.z_height
                        = MockTelemetry("z-height")
                   /\ last.info.v.telemetry.print_speed
                        = MockTelemetry("print-speed")
           /\ last.op = "get_nozzle_temp"
                => last.val = Some(MockTelemetry("temp-nozzle"))
           /\ last.op = "get_bed_temp"
                => last.val = Some(MockTelemetry("temp-bed"))

----------------------------------------------------------------------------
(* C12: get_version() sends exactly one request, to /api/version, whatever *)
(* the cache holds and whatever the policy; it returns the body of that    *)
(* request or the request's error; and whether it succeeds or fails it     *)
(* leaves the cached snapshot and the last-fetch timestamp as they were.   *)
C12_VersionIsPassthrough ==
    last.op = "get_version"
        => /\ last.sent = 1
           /\ last.path = "/api/version"
           /\ CacheNow = last.pre
           /\ last.ret.ok <=> last.net.kind = "body"
           /\ last.ret.ok => last.text = Some(last.net.body)
           /\ ~last.ret.ok => last.text = None

(* get_version() failed over a cached snapshot of a client without a       *)
(* refresh duration, and the snapshot is still there.                      *)
C12_Witness ==
    /\ last.op = "get_version"
    /\ ~auto_refresh.some
    /\ last.net.kind = "text_err"
    /\ ~last.ret.ok
    /\ last.pre.printer.some
    /\ printer.some

----------------------------------------------------------------------------
Mutators == {"change_address", "change_api_key"}

(* The cached snapshot is within its time to live now, or there is no time *)
(* to live.                                                                *)
FreshNow ==
    /\ printer.some
    /\ last_refresh.some
    /\ \/ ~auto_refresh.some
       \/ now - last_refresh.v <= auto_refresh.v

(* C13: change_address() and change_api_key() leave the cached snapshot    *)
(* and the last-fetch timestamp as they were, and an accessor called next, *)
(* while that snapshot is within its time to live, sends no request and    *)
(* returns the value of the snapshot fetched before the change.            *)
C13_ChangeKeepsCache ==
    [][/\ last'.op \in Mutators
            => /\ CacheNow' = last'.pre
               /\ last'.sent = 0
       /\ (last.op \in Mutators /\ last'.op \in Accessors /\ FreshNow)
            => /\ last'.sent = 0
               /\ last'.ret.ok
               /\ last'.val = Some(ReadOf(last'.op, last.pre.printer.v))
               /\ CacheNow' = last.pre]_vars

(* The key was changed over a cached snapshot, which is still there and    *)
(* within its time to live one second later.                               *)
C13_Witness ==
    /\ last.op = "change_api_key"
    /\ last.pre.printer.some
    /\ CacheNow = last.pre
    /\ now > last.at
    /\ FreshNow

----------------------------------------------------------------------------
(* The calls a PrinterBuilder accepts before build(), with their argument, *)
(* and the sequences of at most MaxCalls of them.                          *)
BuilderCalls ==
    {[op |-> "port", arg |-> p] : p \in Ports}
    \cup {[op |-> "auto_refresh", arg |-> d] : d \in Durations}

CallSeqs == UNION {[1..n -> BuilderCalls] : n \in 0..MaxCalls}

(* The builder b after the calls, in order. *)
RECURSIVE ApplyCalls(_, _)
ApplyCalls(b, calls) ==
    IF calls = <<>> THEN b
    ELSE LET c == Head(calls)
         IN  ApplyCalls(IF c.op = "port"
                        THEN PrinterBuilder_port(b, c.arg)
                        ELSE PrinterBuilder_auto_refresh(b, c.arg),
                        Tail(calls))

(* C14: from the builder that new() returns, and from every builder after  *)
(* it, some sequence of port() and auto_refresh() calls followed by        *)
(* build() yields a Printer without a refresh duration (auto_refresh =     *)
(* None).                                                                  *)
C14_BuilderCanDisable ==
    stage = "PrinterBuilder"
        => \E calls \in CallSeqs :
              ~PrinterBuilder_build(ApplyCalls(Builder, calls)).auto_refresh.some

----------------------------------------------------------------------------
(* C15: the builder that new() returns has port 80 and a refresh duration  *)
(* of 2 seconds; port(p) sets the port to p and auto_refresh(d) sets the   *)
(* duration to d, each leaving every other field as it was, so that the    *)
(* last call of each wins; and build() carries address, key, port and      *)
(* duration over unchanged, with no snapshot and no timestamp.             *)
C15_BuilderDefaultsAndOverrides ==
    [][stage = "PrinterBuilder"
         => /\ last.op = "none"
                 => port = 80 /\ auto_refresh = Some(2)
            /\ last'.op = "port"
                 => /\ stage' = "PrinterBuilder"
                    /\ port' = last'.arg
                    /\ address' = address /\ api_key' = api_key
                    /\ auto_refresh' = auto_refresh
            /\ last'.op = "auto_refresh"
                 => /\ stage' = "PrinterBuilder"
                    /\ auto_refresh' = Some(last'.arg)
                    /\ address' = address /\ api_key' = api_key
                    /\ port' = port
            /\ last'.op = "build"
                 => /\ stage' = "Printer"
                    /\ address' = address /\ api_key' = api_key
                    /\ port' = port /\ auto_refresh' = auto_refresh
                    /\ printer' = None /\ last_refresh' = None]_vars

(* A client just built after both defaults were overridden. *)
C15_Witness ==
    /\ stage = "Printer"
    /\ last.op = "build"
    /\ port = 8080
    /\ auto_refresh = Some(1)
    /\ ~printer.some
    /\ ~last_refresh.some

----------------------------------------------------------------------------
(* C16: a refresh(), forced or started by an accessor, that the caller     *)
(* drops while the request or the body read is in flight returns nothing   *)
(* and leaves the cached snapshot and the last-fetch timestamp as they     *)
(* were, both present or both absent.                                      *)
C16_DroppedRefreshKeepsCache ==
    (last.op \in Accessors \cup {"refresh"} /\ last.net.kind \in DroppedKinds)
        => /\ last.sent = 1
           /\ last.ret = Dropped
           /\ last.val = None
           /\ CacheNow = last.pre
           /\ printer.some <=> last_refresh.some

(* A refresh() over a cached snapshot was dropped during the body read. *)
C16_Witness ==
    /\ last.op = "refresh"
    /\ last.net.kind = "text_dropped"
    /\ last.pre.printer.some
    /\ last.pre.last_refresh.some
    /\ last.pre.last_refresh.v < last.at
    /\ CacheNow = last.pre

----------------------------------------------------------------------------
NetworkOps == Accessors \cup {"refresh", "get_printer_info", "get_version"}

(* The latest call returned no value of any kind. *)
ReturnedNothing == last.val = None /\ last.info = None /\ last.text = None

(* C17: one call of refresh(), get_printer_info(), get_version() or an     *)
(* accessor sends at most one request; when that request fails in the      *)
(* transport, or its body cannot be used, the call returns the error and   *)
(* no value.                                                               *)
C17_NoRetry ==
    last.op \in NetworkOps
        => /\ last.sent \in {0, 1}
           /\ (last.sent = 1 /\ last.net.kind \in {"send_err", "text_err"})
                => /\ last.ret = Err(TransportError)
                   /\ ReturnedNothing
           /\ (/\ last.sent = 1
               /\ last.op # "get_version"
               /\ last.net.kind = "body"
               /\ ~Delivers(last.net))
                => /\ ~last.ret.ok
                   /\ last.ret.err \in {EmptyResponse, JsonError}
                   /\ ReturnedNothing

(* The first fetch of a client, started by get_bed_temp(), failed in       *)
(* send() and the call returned the error after that one request.          *)
C17_Witness ==
    /\ last.op = "get_bed_temp"
    /\ ~last.pre.printer.some
    /\ last.sent = 1
    /\ last.net.kind = "send_err"
    /\ last.ret = Err(TransportError)
    /\ ~printer.some

----------------------------------------------------------------------------
(* C18: an accessor that refreshes successfully returns the value of the   *)
(* snapshot decoded from the body it has just fetched, which is then the   *)
(* cached one; an accessor that does not refresh returns the value of the  *)
(* snapshot that was cached when it was called.                            *)
C18_ReadsNewestSnapshot ==
    (last.op \in Accessors /\ last.ret.ok)
        => /\ last.sent = 1
                => /\ Delivers(last.net)
                   /\ printer = Some(from_str(last.net.body).v)
                   /\ last.val
                        = Some(ReadOf(last.op, from_str(last.net.body).v))
           /\ last.sent = 0
                => /\ last.pre.printer.some
                   /\ CacheNow = last.pre
                   /\ last.val = Some(ReadOf(last.op, last.pre.printer.v))

(* get_bed_temp() found its snapshot stale, fetched one with another bed   *)
(* temperature and returned the new temperature.                           *)
C18_Witness ==
    /\ last.op = "get_bed_temp"
    /\ last.pre.printer.some
    /\ last.sent = 1
    /\ last.ret.ok
    /\ printer.some
    /\ last.val = Some(printer.v.telemetry.bed_temp)
    /\ last.val # Some(last.pre.printer.v.telemetry.bed_temp)

----------------------------------------------------------------------------
(* C19: under every policy, whenever refresh_if_necessary() has returned   *)
(* Ok inside an accessor a snapshot is cached, so the accessor's unwrap()  *)
(* of the snapshot never panics and the accessor returns a value.          *)
C19_UnwrapNeverPanics ==
    last.op \in Accessors
        => /\ last.ret # Err(UnwrapNone)
           /\ last.ret.ok => (printer.some /\ last.val.some)

(* The first get_nozzle_temp() of a client fetched, and unwrapped the      *)
(* snapshot it had just stored.                                            *)
C19_Witness ==
    /\ last.op = "get_nozzle_temp"
    /\ ~last.pre.printer.some
    /\ ~last.pre.last_refresh.some
    /\ last.ret.ok
    /\ printer.some
    /\ last.val = Some(printer.v.telemetry.nozzle_temp)

----------------------------------------------------------------------------
(* C20: get_printer_info() sends a request to /api/printer on every call   *)
(* and, whether it succeeds or fails, leaves the cached snapshot and the   *)
(* last-fetch timestamp as they were; so an accessor called after a        *)
(* successful get_printer_info() on a client that has no snapshot sends a  *)
(* request of its own.                                                     *)
C20_InfoNeverCaches ==
    [][/\ last'.op = "get_printer_info"
            => /\ last'.sent = 1
               /\ last'.path = "/api/printer"
               /\ CacheNow' = last'.pre
       /\ (/\ last.op = "get_printer_info"
           /\ last.ret.ok
           /\ ~printer.some
           /\ last'.op \in Accessors)
            => last'.sent = 1]_vars

(* get_printer_info() returned a snapshot to the caller of a client that   *)
(* never refreshed, and the client still holds none.                       *)
C20_Witness ==
    /\ last.op = "get_printer_info"
    /\ last.ret.ok
    /\ last.info.some
    /\ ~last.pre.printer.some
    /\ ~printer.some
    /\ ~last_refresh.some

----------------------------------------------------------------------------
FetchOps == Accessors \cup {"refresh"}

(* No snapshot and no timestamp: no fetch has succeeded so far. *)
CacheEmpty == ~printer.some /\ ~last_refresh.some

(* The latest call found the cache empty. *)
CalledOnEmptyCache == last.pre = [printer |-> None, last_refresh |-> None]

(* C21: under every policy, an accessor called while the cache is empty    *)
(* sends a request, whether or not earlier fetches failed; a call on an    *)
(* empty cache that is not a successful fetch leaves the cache empty; and  *)
(* a fetch that succeeds stores the snapshot it decoded and the time of    *)
(* the call.                                                               *)
C21_EmptyCacheAlwaysFetches ==
    CalledOnEmptyCache
        => /\ last.op \in Accessors
                => /\ last.sent = 1
                   /\ last.path = "/api/printer"
                   /\ last.ret.ok <=> Delivers(last.net)
           /\ (last.op \in FetchOps /\ last.ret.ok)
                => /\ Delivers(last.net)
                   /\ printer = Some(from_str(last.net.body).v)
                   /\ last_refresh = Some(last.at)
           /\ ~(last.op \in FetchOps /\ last.ret.ok)
                => CacheEmpty

(* The first fetch of a client without a refresh duration, started by an   *)
(* accessor after time has passed, failed and left the cache empty.        *)
C21_Witness ==
    /\ ~auto_refresh.some
    /\ last.op \in Accessors
    /\ last.at > 0
    /\ last.sent = 1
    /\ ~last.ret.ok
    /\ CalledOnEmptyCache
    /\ CacheEmpty

====
